---- MODULE Spec2Model ----
(***************************************************************************)
(* A model of transfer.py: the Transport primitives (options codec,        *)
(* send_data, recv_data, ACK and hash exchange), the Sender and Receiver   *)
(* field codecs, and the send() / recv() session flows over one stream     *)
(* connection.                                                             *)
(*                                                                         *)
(* A wire byte is a tuple of integers.  A plain byte of value v is <<v>>.  *)
(* Byte i of the SHA-256 digest of data d is <<256 + i>> \o (values of d): *)
(* the digest is an ideal hash, equal to another digest only when the data *)
(* are equal, and never equal to a plain byte.                             *)
(*                                                                         *)
(* One action is one socket call of one side together with the local code  *)
(* that runs up to that side's next socket call.                           *)
(***************************************************************************)
EXTENDS Integers, Sequences, FiniteSets, TLC

\* ------------------------------------------------------------ bounds
\* Field widths and the buffer size are the program's, scaled down together:
\* the code has SIZE 8, NAME 255, HASH 32 and BUFFERSIZE 16384 (each field
\* fits in one buffer).  Scale is the width of every fixed field.
Scale == 2
\* Longest file payload, in bytes.
MaxLen == 2
\* Most files in one batch.
MaxFiles == 1
\* Most sock.send calls of one session that accept fewer bytes than given.
MaxShort == 1
\* Most files in one batch of a session over a reliable connection.
MaxBatch == 2

SIZE_LEN == Scale
NAME_LEN == Scale
HASH_LEN == Scale
BUFFERSIZE == Scale + 1

\* ------------------------------------------------------------ helpers
Min(a, b) == IF a < b THEN a ELSE b
Take(s, n) == SubSeq(s, 1, Min(n, Len(s)))
Drop(s, n) == SubSeq(s, Min(n, Len(s)) + 1, Len(s))
Range(s) == {s[i] : i \in 1..Len(s)}
Pow2(i) == 2 ^ i
BitSet(n, i) == (n \div Pow2(i)) % 2 = 1

RECURSIVE SeqsUpTo(_, _)
\* all sequences over S of length 0..n
SeqsUpTo(S, n) ==
    IF n = 0 THEN {<<>>}
    ELSE LET P == SeqsUpTo(S, n - 1)
         IN  P \cup {Append(p, x) : p \in {q \in P : Len(q) = n - 1}, x \in S}

\* a plain byte and its value
B(v) == <<v>>
Val(b) == b[1]
ACK == B(1)

\* ------------------------------------------------------------ Options
SINGLE_FILE == 1
MULTI_FILES == 2
TIMEOUT == 4
NO_TIMEOUT == 16
FlagValues == {SINGLE_FILE, MULTI_FILES, TIMEOUT, NO_TIMEOUT}

FlagName(v) ==
    CASE v = SINGLE_FILE -> "SINGLE_FILE"
      [] v = MULTI_FILES -> "MULTI_FILES"
      [] v = TIMEOUT     -> "TIMEOUT"
      [] v = NO_TIMEOUT  -> "NO_TIMEOUT"
      [] OTHER           -> ""

\* Options(v): the member of value v; an IntFlag accepts a value that names no
\* member and returns a pseudo-member without a name.
OptionsOf(v) == [name |-> FlagName(v), value |-> v]
Members == {OptionsOf(v) : v \in FlagValues}

\* bitwise or of two bytes
BitOr(a, b) ==
    LET bit(i) == IF BitSet(a, i) \/ BitSet(b, i) THEN Pow2(i) ELSE 0
    IN  bit(0) + bit(1) + bit(2) + bit(3) + bit(4) + bit(5) + bit(6) + bit(7)

RECURSIVE OrAll(_, _)
OrAll(ops, byte) ==
    IF ops = <<>> THEN byte
    ELSE OrAll(Tail(ops), BitOr(byte, Head(ops).value))

\* options_to_byte(options): one byte, the or of the members' values
options_to_byte(ops) == << B(OrAll(ops, 0)) >>

RECURSIVE DecodeBits(_, _, _)
DecodeBits(n, i, stop) ==
    IF i >= stop THEN <<>>
    ELSE (IF BitSet(n, i) THEN << OptionsOf(Pow2(i)) >> ELSE <<>>)
         \o DecodeBits(n, i + 1, stop)

\* byte_to_options with the loop stopping at bit 3
byte_to_options_low_bits(bytes) == DecodeBits(Val(bytes[1]), 0, 4)

\* byte_to_options(byte): the list of members, lowest bit first; `bytes` is
\* what recv(1) returned, and unpack('>B') needs exactly one byte
byte_to_options(bytes) == DecodeBits(Val(bytes[1]), 0, 8)

\* ------------------------------------------------------------ field codecs
\* pack('>Q', n): SIZE_LEN bytes, big-endian
PackSize(n) == [i \in 1..SIZE_LEN |-> B((n \div (256 ^ (SIZE_LEN - i))) % 256)]

RECURSIVE BigEndian(_)
BigEndian(bytes) ==
    IF bytes = <<>> THEN 0
    ELSE BigEndian(SubSeq(bytes, 1, Len(bytes) - 1)) * 256 + Val(bytes[Len(bytes)])

\* unpack('>Q', bytes) raises struct.error unless bytes is exactly SIZE_LEN long
UnpackOk(bytes) == Len(bytes) = SIZE_LEN
UnpackSize(bytes) == BigEndian(bytes)

\* A file name is a sequence of code points; NUL is the padding character.
NUL == 0
\* the UTF-8 encoding of one code point below 2048
Utf8(c) == IF c < 128 THEN << B(c) >> ELSE << B(192 + (c \div 64)), B(128 + (c % 64)) >>

RECURSIVE Utf8Encode(_)
Utf8Encode(chars) ==
    IF chars = <<>> THEN <<>> ELSE Utf8(Head(chars)) \o Utf8Encode(Tail(chars))

\* fn.ljust(NAME_LEN, '\x00'): pads to NAME_LEN characters, never truncates
LJust(chars) ==
    chars \o [i \in 1..(IF Len(chars) < NAME_LEN THEN NAME_LEN - Len(chars) ELSE 0) |-> NUL]

\* bytes(fn.ljust(255, '\x00'), 'utf-8')
EncodeName(fn) == Utf8Encode(LJust(fn))

\* str(bytes, 'utf-8'): ok is FALSE where Python raises UnicodeDecodeError
RECURSIVE Utf8Decode(_)
Utf8Decode(bytes) ==
    IF bytes = <<>> THEN [ok |-> TRUE, chars |-> <<>>]
    ELSE LET b == Val(bytes[1])
         IN  IF b < 128
             THEN LET r == Utf8Decode(Tail(bytes))
                  IN  [ok |-> r.ok, chars |-> << b >> \o r.chars]
             ELSE IF b >= 194 /\ b <= 223 /\ Len(bytes) >= 2
                     /\ Val(bytes[2]) >= 128 /\ Val(bytes[2]) <= 191
             THEN LET r == Utf8Decode(Tail(Tail(bytes)))
                  IN  [ok |-> r.ok,
                       chars |-> << (b - 192) * 64 + (Val(bytes[2]) - 128) >> \o r.chars]
             ELSE [ok |-> FALSE, chars |-> <<>>]

RECURSIVE RStripNul(_)
\* s.rstrip('\x00')
RStripNul(chars) ==
    IF chars # <<>> /\ chars[Len(chars)] = NUL
    THEN RStripNul(SubSeq(chars, 1, Len(chars) - 1))
    ELSE chars

\* hashlib.sha256 over data (plain bytes): HASH_LEN digest bytes
Sha256(data) == [i \in 1..HASH_LEN |-> << 256 + i >> \o [j \in 1..Len(data) |-> Val(data[j])]]

\* ------------------------------------------------------------ send_data
\* The frame of one send_data(stream, length) call.  st is where the call is:
\* "send" at sock.send (line 80), "ret" returned, "spin" looping at line 74
\* with an exhausted stream.  src and out record the stream as given and the
\* bytes the call has written to the socket.
IdleSend == [st |-> "ret", src |-> <<>>, stream |-> <<>>, length |-> 0, chunk |-> <<>>,
             chunksent |-> 0, totalsent |-> 0, sha |-> <<>>, out |-> <<>>]

\* lines 74-76: the head of the outer loop
SendHead(f) ==
    IF f.totalsent < f.length
    THEN LET c == Take(f.stream, BUFFERSIZE)
         IN  IF c = <<>>
             THEN [f EXCEPT !.st = "spin", !.chunk = <<>>, !.chunksent = 0]
             ELSE [f EXCEPT !.st = "send", !.chunk = c, !.chunksent = 0,
                            !.stream = Drop(f.stream, BUFFERSIZE), !.sha = f.sha \o c]
    ELSE [f EXCEPT !.st = "ret", !.chunk = <<>>, !.chunksent = 0]

\* lines 72-73 and the first pass to the first socket call
StartSend(stream, length) ==
    SendHead([IdleSend EXCEPT !.src = stream, !.stream = stream, !.length = length])

\* line 80: the bytes sock.send(chunk) hands to the socket when it accepts k
SockSendBytes(f, k) == Take(f.chunk, k)

\* lines 80-84 after sock.send accepted k bytes
AfterSend(f, k) ==
    LET g == [f EXCEPT !.chunksent = f.chunksent + k, !.out = f.out \o SockSendBytes(f, k)]
    IN  IF g.chunksent < Len(g.chunk)
        THEN g
        ELSE SendHead([g EXCEPT !.totalsent = g.totalsent + g.chunksent])

\* ------------------------------------------------------------ recv_data
\* The frame of one recv_data(stream, size) call: buf is what was written to
\* the sink (and hashed); st is "recv" at sock.recv (line 96) or "ret".
IdleRecv == [st |-> "ret", size |-> 0, buf |-> <<>>]
StartRecv(size) == [st |-> IF 0 < size THEN "recv" ELSE "ret", size |-> size, buf |-> <<>>]

\* line 96: how many bytes sock.recv asks for
RecvAsk(f) == BUFFERSIZE

\* lines 99-101 after sock.recv returned chunk
AfterRecv(f, chunk) ==
    LET b == f.buf \o chunk
    IN  [f EXCEPT !.buf = b, !.st = IF Len(b) < f.size THEN "recv" ELSE "ret"]

\* ------------------------------------------------------------ state
VARIABLES
    pc,         \* pc[p]: the socket call side p is at, or "done" / "failed"
    err,        \* err[p]: the error that ended side p, "" if none
    inbox,      \* inbox[p]: bytes sent to side p that it has not read yet
    closed,     \* closed[k]: socket k is closed (or shut down for writing); "S" and
                \* "R" are the two ends of the connection, "L" is the receiver's
                \* listening socket
    snd,        \* snd[p]: the send_data frame of side p
    rcv,        \* rcv[p]: the recv_data frame of side p
    nfiles,     \* length of the sender's file list
    fidx,       \* number of files the sender's loop has started
    soptions,   \* Sender.options
    sname,      \* sender: name of the current file
    sdata,      \* sender: content of the current file
    shash,      \* sender: local_hash (line 257)
    fileSent,   \* sender: bytes written to the socket in this loop iteration
    roptions,   \* Receiver.options
    rlength,    \* receiver: length (line 276)
    rfilename,  \* receiver: filename (line 280)
    rfile,      \* receiver: content written to the file opened at line 282
    rhash,      \* receiver: local_hash (line 283)
    ropened,    \* receiver: number of files opened for writing
    racks,      \* receiver: number of send_ack calls
    timeout,    \* timeout[p]: settimeout was applied to side p's socket
    shortSend   \* number of sock.send calls that accepted fewer bytes than given

vars == << pc, err, inbox, closed, snd, rcv, nfiles, fidx, soptions, sname, sdata,
           shash, fileSent, roptions, rlength, rfilename, rfile, rhash, ropened, racks,
           timeout, shortSend >>

senderVars == << nfiles, fidx, soptions, sname, sdata, shash, fileSent >>
receiverVars == << roptions, rlength, rfilename, rfile, rhash, ropened, racks >>

Sides == {"S", "R"}
Sockets == {"S", "R", "L"}
Peer(p) == IF p = "S" THEN "R" ELSE "S"

\* the inputs: file names and file contents
\* names of 1..NAME_LEN+1 characters 'a', and the one-character name 'e-acute'
Names == {[i \in 1..n |-> 97] : n \in 1..(NAME_LEN + 1)} \cup {<< 233 >>}
PayloadBytes == {B(1), B(2)}
Payloads == SeqsUpTo(PayloadBytes, MaxLen)

\* MainOptions without the test on the number of files
MainOptions_single(n, withTimeout) ==
    << OptionsOf(SINGLE_FILE), OptionsOf(IF withTimeout THEN TIMEOUT ELSE NO_TIMEOUT) >>

\* Main, lines 299-306: the options the CLI builds the Sender with.  Main
\* refuses an empty file list (lines 295-296); send(sender, []) is a call of
\* the module's API with a Sender built the same way.
MainOptions(n, withTimeout) ==
    << OptionsOf(IF n > 1 THEN MULTI_FILES ELSE SINGLE_FILE),
       OptionsOf(IF withTimeout THEN TIMEOUT ELSE NO_TIMEOUT) >>

\* HasOption answering for any member at all
HasOption_any(ops, v) == ops # <<>>

\* Options[v] in ops (lines 137, 271)
HasOption(ops, v) == \E i \in 1..Len(ops) : ops[i] = OptionsOf(v)

\* Sender.__init__, lines 134-139: the options given, or the default
SenderOptions(given) == IF given # <<>> THEN given ELSE << OptionsOf(NO_TIMEOUT) >>

\* what recv() starts from, and the receiver's side of every initial state
InitReceiver ==
    /\ err = [p \in Sides |-> ""]
    /\ closed = [k \in Sockets |-> FALSE]
    /\ rcv = [p \in Sides |-> IdleRecv]
    /\ fidx = 0
    /\ sname = <<>>
    /\ sdata = <<>>
    /\ shash = <<>>
    /\ fileSent = 0
    /\ roptions = <<>>
    /\ rlength = 0
    /\ rfilename = <<>>
    /\ rfile = <<>>
    /\ rhash = <<>>
    /\ ropened = 0
    /\ racks = 0
    /\ shortSend = 0

\* A Sender built with `given` that has n files to send and a Receiver, the
\* sender at `spc` and the receiver at `rpc`; the sender's first send_data
\* call (send_options, line 148) is prepared.
InitSessionAt(n, given, spc, rpc) ==
    /\ nfiles = n
    /\ soptions = SenderOptions(given)
    /\ timeout = [p \in Sides |-> p = "S" /\ HasOption(soptions, TIMEOUT)]
    /\ pc = [p \in Sides |-> IF p = "S" THEN spc ELSE rpc]
    /\ inbox = [p \in Sides |-> <<>>]
    /\ snd = [p \in Sides |-> IF p = "S" THEN StartSend(options_to_byte(soptions), 1)
                                         ELSE IdleSend]
    /\ InitReceiver

\* The state when send() and recv() start: a Sender built with `given` is
\* connected and has n files to send, the Receiver has accepted the
\* connection; send() is at send_options (line 244), recv() at recv_options
\* (line 269).
InitSession(n, given) == InitSessionAt(n, given, "send_options", "recv_options")

\* The Receiver has accepted a connection from a peer that is not this
\* program's Sender and that has written the one byte v.
InitPeer(v) ==
    /\ nfiles = 0
    /\ soptions = <<>>
    /\ timeout = [p \in Sides |-> FALSE]
    /\ pc = [p \in Sides |-> IF p = "S" THEN "peer" ELSE "recv_options"]
    /\ inbox = [p \in Sides |-> IF p = "R" THEN << B(v) >> ELSE <<>>]
    /\ snd = [p \in Sides |-> IdleSend]
    /\ InitReceiver

Init == \E n \in 0..MaxFiles, t \in BOOLEAN : InitSession(n, MainOptions(n, t))
Running(p) == pc[p] \notin {"done", "failed"}

\* side p is past connect() / accept(): it has its end of the connection
Connected(p) == pc[p] \notin {"connect", "listen", "accept"}

\* side p, connected, ends: its frames are gone and Main's finally closes its
\* end of the connection and, for the receiver, then the listening socket
\* (lines 326-331)
FinishWith(p, how, why, box) ==
    /\ pc' = [pc EXCEPT ![p] = how]
    /\ err' = [err EXCEPT ![p] = why]
    /\ closed' = [k \in Sockets |-> closed[k] \/ k = p \/ (p = "R" /\ k = "L")]
    /\ inbox' = [box EXCEPT ![p] = <<>>]
    /\ snd' = [snd EXCEPT ![p] = IdleSend]
    /\ rcv' = [rcv EXCEPT ![p] = IdleRecv]

Finish(p, how, why) == FinishWith(p, how, why, inbox)

\* bytes written to the socket reach the peer's inbox; the connection drops
\* them once the peer has closed
Deliver(box, to, bytes) == IF closed[to] THEN box ELSE [box EXCEPT ![to] = @ \o bytes]

\* what sock.recv(n) can return to side p: any non-empty prefix of what has
\* arrived, at most n bytes; b'' once the peer closed and nothing is left
CanRecv(p) == inbox[p] # <<>> \/ closed[Peer(p)]
RecvChoices(p, n) ==
    IF inbox[p] = <<>> THEN {<<>>}
    ELSE {Take(inbox[p], k) : k \in 1..Min(n, Len(inbox[p]))}

\* recv_ack with every byte read taken as an acknowledgement
recv_ack_any(bytes) == bytes # <<>>

\* recv_ack (lines 108-111): bytes is what sock.recv(1) returned, b'' when the
\* peer has closed
recv_ack(bytes) == bytes = << ACK >>

\* ------------------------------------------------------------ send()
SenderSendPcs == {"send_options", "send_size", "send_name", "send_payload", "send_ack"}
SenderAckPcs == {"ack_options", "ack_size", "ack_name"}

\* SenderAfterSendPc with the wait for the size ACK and the name left out
SenderAfterSendPc_skip(at) ==
    CASE at = "send_options" -> "ack_options"
      [] at = "send_size"    -> "ack_name"
      [] at = "send_name"    -> "ack_name"
      [] at = "send_payload" -> "recv_hash"
      [] at = "send_ack"     -> IF fidx < nfiles THEN "next_file" ELSE "shutdown"

\* where send() goes when the send_data call it is in returns
SenderAfterSendPc(at) ==
    CASE at = "send_options" -> "ack_options"
      [] at = "send_size"    -> "ack_size"
      [] at = "send_name"    -> "ack_name"
      [] at = "send_payload" -> "recv_hash"
      [] at = "send_ack"     -> IF fidx < nfiles THEN "next_file" ELSE "shutdown"

\* sock.send in the sender's send_data (line 80) accepts k bytes.  When the
\* final send_ack of a file returns and the loop of line 248 goes on, the
\* locals of the finished iteration are dead.
SenderSend(k) ==
    /\ pc["S"] \in SenderSendPcs
    /\ snd["S"].st = "send"
    /\ k \in 1..Len(snd["S"].chunk)
    /\ k < Len(snd["S"].chunk) => shortSend < MaxShort
    /\ LET f == AfterSend(snd["S"], k)
           ret == f.st = "ret"
           at == pc["S"]
           again == ret /\ at = "send_ack" /\ fidx < nfiles
       IN  /\ snd' = [snd EXCEPT !["S"] = f]
           /\ inbox' = Deliver(inbox, "R", SockSendBytes(snd["S"], k))
           /\ fileSent' = IF at = "send_options" THEN fileSent
                           ELSE IF again THEN 0 ELSE fileSent + k
           /\ sname' = IF again THEN <<>> ELSE sname
           /\ sdata' = IF again THEN <<>> ELSE sdata
           /\ shortSend' = shortSend + (IF k < Len(snd["S"].chunk) THEN 1 ELSE 0)
           /\ pc' = IF ret THEN [pc EXCEPT !["S"] = SenderAfterSendPc(at)] ELSE pc
           /\ shash' = IF ret /\ at = "send_payload" THEN Sha256(f.sha)
                        ELSE IF again THEN <<>> ELSE shash
           /\ rcv' = IF ret /\ at = "send_payload"
                     THEN [rcv EXCEPT !["S"] = StartRecv(HASH_LEN)] ELSE rcv
    /\ UNCHANGED << err, closed, nfiles, fidx, soptions, timeout >>
    /\ UNCHANGED receiverVars

\* sock.send after the peer has closed: it reports nothing sent (lines 81-82)
\* or raises; either ends send()
SenderSendBroken ==
    /\ pc["S"] \in SenderSendPcs
    /\ snd["S"].st = "send"
    /\ closed["R"]
    /\ Finish("S", "failed", "connection broken")
    /\ UNCHANGED << timeout, shortSend >>
    /\ UNCHANGED senderVars
    /\ UNCHANGED receiverVars

\* the loop of send() takes the next file (line 248) and send_file_size packs
\* its size (lines 152-155)
SenderNextFileFrom(names) ==
    /\ pc["S"] = "next_file"
    /\ \E name \in names, data \in Payloads :
          /\ sname' = name
          /\ sdata' = data
          /\ snd' = [snd EXCEPT !["S"] = StartSend(PackSize(Len(data)), SIZE_LEN)]
    /\ fidx' = fidx + 1
    /\ fileSent' = 0
    /\ pc' = [pc EXCEPT !["S"] = "send_size"]
    /\ UNCHANGED << err, inbox, closed, rcv, nfiles, soptions, shash, timeout,
                    shortSend >>
    /\ UNCHANGED receiverVars

\* the next file is any file of the inputs
SenderNextFile == SenderNextFileFrom(Names)

\* recv_ack (line 109) at lines 245, 250 and 253, and what follows it up to
\* the next socket call
SenderRecvAck ==
    /\ pc["S"] \in SenderAckPcs
    /\ CanRecv("S")
    /\ LET ack == Take(inbox["S"], 1)
           at == pc["S"]
       IN  IF ~recv_ack(ack)
           THEN /\ Finish("S", "failed", "ACK failed")
                /\ UNCHANGED shash
           ELSE IF at = "ack_size" /\ Len(sname) > NAME_LEN
           THEN /\ Finish("S", "failed", "FilenameTooLongError")
                /\ UNCHANGED shash
           ELSE /\ inbox' = [inbox EXCEPT !["S"] = Tail(@)]
                /\ UNCHANGED << err, closed >>
                /\ CASE at = "ack_options" ->
                          /\ pc' = [pc EXCEPT !["S"] =
                                       IF fidx < nfiles THEN "next_file" ELSE "shutdown"]
                          /\ UNCHANGED << snd, rcv, shash >>
                     [] at = "ack_size" ->
                          /\ pc' = [pc EXCEPT !["S"] = "send_name"]
                          /\ snd' = [snd EXCEPT !["S"] =
                                        StartSend(EncodeName(sname), NAME_LEN)]
                          /\ UNCHANGED << rcv, shash >>
                     [] at = "ack_name" ->
                          LET f == StartSend(sdata, Len(sdata))
                          IN  /\ snd' = [snd EXCEPT !["S"] = f]
                              /\ IF f.st = "ret"
                                 THEN /\ pc' = [pc EXCEPT !["S"] = "recv_hash"]
                                      /\ shash' = Sha256(f.sha)
                                      /\ rcv' = [rcv EXCEPT !["S"] = StartRecv(HASH_LEN)]
                                 ELSE /\ pc' = [pc EXCEPT !["S"] = "send_payload"]
                                      /\ UNCHANGED << rcv, shash >>
    /\ UNCHANGED << nfiles, fidx, soptions, sname, sdata, fileSent, timeout,
                    shortSend >>
    /\ UNCHANGED receiverVars

\* sock.recv in recv_hash's recv_data (line 96), the comparison of line 258 and
\* the start of send_ack (line 261)
SenderRecvHash ==
    /\ pc["S"] = "recv_hash"
    /\ rcv["S"].st = "recv"
    /\ CanRecv("S")
    /\ \E chunk \in RecvChoices("S", RecvAsk(rcv["S"])) :
          IF chunk = <<>>
          THEN Finish("S", "failed", "connection broken")
          ELSE LET f == AfterRecv(rcv["S"], chunk)
               IN  IF f.st = "recv"
                   THEN /\ inbox' = [inbox EXCEPT !["S"] = Drop(@, Len(chunk))]
                        /\ rcv' = [rcv EXCEPT !["S"] = f]
                        /\ UNCHANGED << pc, err, closed, snd >>
                   ELSE IF shash # f.buf
                   THEN Finish("S", "failed", "Hash check failed")
                   ELSE /\ inbox' = [inbox EXCEPT !["S"] = Drop(@, Len(chunk))]
                        /\ rcv' = [rcv EXCEPT !["S"] = f]
                        /\ pc' = [pc EXCEPT !["S"] = "send_ack"]
                        /\ snd' = [snd EXCEPT !["S"] = StartSend(<< ACK >>, 1)]
                        /\ UNCHANGED << err, closed >>
    /\ UNCHANGED << timeout, shortSend >>
    /\ UNCHANGED senderVars
    /\ UNCHANGED receiverVars

\* sock.shutdown(SHUT_WR) (line 262); send() returns and Main closes the socket
SenderShutdown ==
    /\ pc["S"] = "shutdown"
    /\ Finish("S", "done", "")
    /\ UNCHANGED << timeout, shortSend >>
    /\ UNCHANGED senderVars
    /\ UNCHANGED receiverVars

\* ------------------------------------------------------------ recv()
ReceiverSendPcs == {"send_ack_opt", "send_ack_size", "send_ack_name", "send_hash"}
ReceiverRecvPcs == {"recv_size", "recv_name", "recv_payload"}

\* open(filename, 'wb') (line 282) fails on an empty name
OpenFails(filename) == filename = <<>>

\* RecvEofEnds without the except clause of recv_file_size
RecvEofEnds_uncaught(at) == "failed"

\* RecvEofEnds with RuntimeError swallowed wherever recv_data raises it
RecvEofEnds_swallowed(at) == "done"

\* how recv() ends when recv_data raises RuntimeError at sock.recv returning
\* b'': recv_file_size catches it and returns 0, which ends the loop normally
\* (lines 209-210, 277-278); from recv_filename or the payload it propagates
RecvEofEnds(at) == IF at = "recv_size" THEN "done" ELSE "failed"

\* RecvOptionsFailure with the result of recv_options ignored
RecvOptionsFailure_ignored == [how |-> "done", why |-> ""]

\* lines 267-268: how recv() ends when recv_options returns False
RecvOptionsFailure == [how |-> "failed", why |-> "failed to unpack options byte"]

\* recv_options (lines 193-197), lines 267-273 and the start of send_ack
ReceiverRecvOptions ==
    /\ pc["R"] = "recv_options"
    /\ CanRecv("R")
    /\ LET byte == Take(inbox["R"], 1)
       IN  IF byte = <<>>
           THEN /\ Finish("R", RecvOptionsFailure.how, RecvOptionsFailure.why)
                /\ UNCHANGED << roptions, timeout, racks >>
           ELSE /\ roptions' = byte_to_options(byte)
                /\ timeout' = [timeout EXCEPT !["R"] = HasOption(roptions', TIMEOUT)]
                /\ inbox' = [inbox EXCEPT !["R"] = Tail(@)]
                /\ snd' = [snd EXCEPT !["R"] = StartSend(<< ACK >>, 1)]
                /\ racks' = racks + 1
                /\ pc' = [pc EXCEPT !["R"] = "send_ack_opt"]
                /\ UNCHANGED << err, closed, rcv >>
    /\ UNCHANGED << rlength, rfilename, rfile, rhash, ropened, shortSend >>
    /\ UNCHANGED senderVars

\* sock.send in the receiver's send_data (line 80) accepts k bytes, and what
\* recv() does when the call returns, up to its next socket call
ReceiverSend(k) ==
    /\ pc["R"] \in ReceiverSendPcs
    /\ snd["R"].st = "send"
    /\ k \in 1..Len(snd["R"].chunk)
    /\ k < Len(snd["R"].chunk) => shortSend < MaxShort
    /\ LET f == AfterSend(snd["R"], k)
           ret == f.st = "ret"
           at == pc["R"]
           box == Deliver(inbox, "S", SockSendBytes(snd["R"], k))
       IN  /\ shortSend' = shortSend + (IF k < Len(snd["R"].chunk) THEN 1 ELSE 0)
           /\ IF ret /\ at = "send_ack_name" /\ OpenFails(rfilename)
              THEN /\ FinishWith("R", "failed", "open failed", box)
                   /\ UNCHANGED << rfile, ropened >>
              ELSE /\ inbox' = box
                   /\ snd' = [snd EXCEPT !["R"] = f]
                   /\ UNCHANGED << err, closed >>
                   /\ CASE ~ret ->
                             UNCHANGED << pc, rcv, rfile, ropened >>
                        [] ret /\ at = "send_ack_opt" ->
                             /\ pc' = [pc EXCEPT !["R"] = "recv_size"]
                             /\ rcv' = [rcv EXCEPT !["R"] = StartRecv(SIZE_LEN)]
                             /\ UNCHANGED << rfile, ropened >>
                        [] ret /\ at = "send_ack_size" ->
                             /\ pc' = [pc EXCEPT !["R"] = "recv_name"]
                             /\ rcv' = [rcv EXCEPT !["R"] = StartRecv(NAME_LEN)]
                             /\ UNCHANGED << rfile, ropened >>
                        [] ret /\ at = "send_ack_name" ->
                             /\ pc' = [pc EXCEPT !["R"] = "recv_payload"]
                             /\ rcv' = [rcv EXCEPT !["R"] = StartRecv(rlength)]
                             /\ rfile' = <<>>
                             /\ ropened' = ropened + 1
                        [] ret /\ at = "send_hash" ->
                             /\ pc' = [pc EXCEPT !["R"] = "recv_ack"]
                             /\ UNCHANGED << rcv, rfile, ropened >>
    /\ UNCHANGED << roptions, rlength, rfilename, rhash, racks, timeout >>
    /\ UNCHANGED senderVars

\* sock.send after the peer has closed: it reports nothing sent (lines 81-82)
\* or raises; either ends recv()
ReceiverSendBroken ==
    /\ pc["R"] \in ReceiverSendPcs
    /\ snd["R"].st = "send"
    /\ closed["S"]
    /\ Finish("R", "failed", "connection broken")
    /\ UNCHANGED << timeout, shortSend >>
    /\ UNCHANGED senderVars
    /\ UNCHANGED receiverVars

\* sock.recv in the receiver's recv_data (line 96) for the size, the name or
\* the payload, and what recv() does when the call returns or raises
ReceiverRecv ==
    /\ pc["R"] \in ReceiverRecvPcs
    /\ rcv["R"].st = "recv"
    /\ CanRecv("R")
    /\ \E chunk \in RecvChoices("R", RecvAsk(rcv["R"])) :
          LET at == pc["R"]
              f == AfterRecv(rcv["R"], chunk)
              ret == f.st = "ret"
              name == Utf8Decode(f.buf)
          IN  IF chunk = <<>>
              THEN /\ IF RecvEofEnds(at) = "done"
                      THEN Finish("R", "done", "")
                      ELSE Finish("R", "failed", "connection broken")
                   /\ UNCHANGED << rlength, rfilename, rfile, rhash, racks >>
              ELSE IF ret /\ at = "recv_size" /\ ~UnpackOk(f.buf)
              THEN /\ Finish("R", "failed", "struct.error")
                   /\ UNCHANGED << rlength, rfilename, rfile, rhash, racks >>
              ELSE IF ret /\ at = "recv_size" /\ UnpackSize(f.buf) = 0
              THEN /\ Finish("R", "done", "")
                   /\ rlength' = 0
                   /\ UNCHANGED << rfilename, rfile, rhash, racks >>
              ELSE IF ret /\ at = "recv_name" /\ ~name.ok
              THEN /\ Finish("R", "failed", "UnicodeDecodeError")
                   /\ UNCHANGED << rlength, rfilename, rfile, rhash, racks >>
              ELSE /\ inbox' = [inbox EXCEPT !["R"] = Drop(@, Len(chunk))]
                   /\ rcv' = [rcv EXCEPT !["R"] = f]
                   /\ rfile' = IF at = "recv_payload" THEN rfile \o chunk ELSE rfile
                   /\ UNCHANGED << err, closed >>
                   /\ CASE ~ret ->
                             UNCHANGED << pc, snd, rlength, rfilename, rhash, racks >>
                        [] ret /\ at = "recv_size" ->
                             /\ rlength' = UnpackSize(f.buf)
                             /\ pc' = [pc EXCEPT !["R"] = "send_ack_size"]
                             /\ snd' = [snd EXCEPT !["R"] = StartSend(<< ACK >>, 1)]
                             /\ racks' = racks + 1
                             /\ UNCHANGED << rfilename, rhash >>
                        [] ret /\ at = "recv_name" ->
                             /\ rfilename' = RStripNul(name.chars)
                             /\ pc' = [pc EXCEPT !["R"] = "send_ack_name"]
                             /\ snd' = [snd EXCEPT !["R"] = StartSend(<< ACK >>, 1)]
                             /\ racks' = racks + 1
                             /\ UNCHANGED << rlength, rhash >>
                        [] ret /\ at = "recv_payload" ->
                             /\ rhash' = Sha256(f.buf)
                             /\ pc' = [pc EXCEPT !["R"] = "send_hash"]
                             /\ snd' = [snd EXCEPT !["R"] = StartSend(rhash', HASH_LEN)]
                             /\ UNCHANGED << rlength, rfilename, racks >>
    /\ UNCHANGED << roptions, ropened, timeout, shortSend >>
    /\ UNCHANGED senderVars

\* recv_ack (line 109) at line 286; the loop goes back to recv_file_size and
\* the locals of the finished iteration are dead
ReceiverRecvAck ==
    /\ pc["R"] = "recv_ack"
    /\ CanRecv("R")
    /\ IF ~recv_ack(Take(inbox["R"], 1))
       THEN /\ Finish("R", "failed", "ACK failed")
            /\ UNCHANGED << rlength, rfilename, rfile, rhash >>
       ELSE /\ inbox' = [inbox EXCEPT !["R"] = Tail(@)]
            /\ pc' = [pc EXCEPT !["R"] = "recv_size"]
            /\ rcv' = [rcv EXCEPT !["R"] = StartRecv(SIZE_LEN)]
            /\ rlength' = 0
            /\ rfilename' = <<>>
            /\ rfile' = <<>>
            /\ rhash' = <<>>
            /\ UNCHANGED << err, closed, snd >>
    /\ UNCHANGED << roptions, ropened, racks, timeout, shortSend >>
    /\ UNCHANGED senderVars

\* Side p, connected, ends outside the protocol while its peer is still
\* running (the process is killed, its socket times out, its file cannot be
\* opened): the socket is closed.
Abort(p) ==
    /\ Running(p)
    /\ Connected(p)
    /\ Running(Peer(p))
    /\ Finish(p, "failed", "aborted")
    /\ UNCHANGED << timeout, shortSend >>
    /\ UNCHANGED senderVars
    /\ UNCHANGED receiverVars

Next ==
    \/ \E k \in 1..BUFFERSIZE : SenderSend(k)
    \/ SenderSendBroken
    \/ SenderNextFile
    \/ SenderRecvAck
    \/ SenderRecvHash
    \/ SenderShutdown
    \/ ReceiverRecvOptions
    \/ \E k \in 1..BUFFERSIZE : ReceiverSend(k)
    \/ ReceiverSendBroken
    \/ ReceiverRecv
    \/ ReceiverRecvAck
    \/ \E p \in Sides : Abort(p)

Spec == Init /\ [][Next]_vars

\* ------------------------------------------------------------ Main
\* The two processes from the construction of their transport objects: the
\* Sender is about to connect (line 308), the Receiver about to listen (line
\* 319); it has no connected socket yet (line 174 deleted the attribute).
InitMain ==
    \E n \in 1..MaxFiles, t \in BOOLEAN :
        InitSessionAt(n, MainOptions(n, t), "connect", "listen")

\* listen() returns (line 319)
ReceiverListen ==
    /\ pc["R"] = "listen"
    /\ pc' = [pc EXCEPT !["R"] = "accept"]
    /\ UNCHANGED << err, inbox, closed, snd, rcv, timeout, shortSend >>
    /\ UNCHANGED senderVars
    /\ UNCHANGED receiverVars

\* accept() returns the connection (line 267) once the sender has connected
ReceiverAccept ==
    /\ pc["R"] = "accept"
    /\ Connected("S")
    /\ err["S"] # "failed to connect"
    /\ pc' = [pc EXCEPT !["R"] = "recv_options"]
    /\ UNCHANGED << err, inbox, closed, snd, rcv, timeout, shortSend >>
    /\ UNCHANGED senderVars
    /\ UNCHANGED receiverVars

\* listen() or accept() raises (an OSError, a KeyboardInterrupt while waiting):
\* Main's finally evaluates transport.sock (line 329), an attribute the
\* Receiver does not have before accept, so AttributeError is raised there and
\* line 331 is not reached
ReceiverFailsUnconnected ==
    /\ pc["R"] \in {"listen", "accept"}
    /\ pc' = [pc EXCEPT !["R"] = "failed"]
    /\ err' = [err EXCEPT !["R"] = "AttributeError"]
    /\ UNCHANGED << inbox, closed, snd, rcv, timeout, shortSend >>
    /\ UNCHANGED senderVars
    /\ UNCHANGED receiverVars

\* connect() succeeds (line 308): the receiver's process is listening
SenderConnect ==
    /\ pc["S"] = "connect"
    /\ pc["R"] \notin {"listen", "done", "failed"}
    /\ pc' = [pc EXCEPT !["S"] = "send_options"]
    /\ UNCHANGED << err, inbox, closed, snd, rcv, timeout, shortSend >>
    /\ UNCHANGED senderVars
    /\ UNCHANGED receiverVars

\* connect() raises socket.error: Main exits (lines 309-311) and its finally
\* closes the sender's socket
SenderConnectFails ==
    /\ pc["S"] = "connect"
    /\ pc["R"] \in {"listen", "done", "failed"}
    /\ pc' = [pc EXCEPT !["S"] = "failed"]
    /\ err' = [err EXCEPT !["S"] = "failed to connect"]
    /\ closed' = [closed EXCEPT !["S"] = TRUE]
    /\ UNCHANGED << inbox, snd, rcv, timeout, shortSend >>
    /\ UNCHANGED senderVars
    /\ UNCHANGED receiverVars

NextMain ==
    \/ ReceiverListen
    \/ ReceiverAccept
    \/ ReceiverFailsUnconnected
    \/ SenderConnect
    \/ SenderConnectFails
    \/ Next

SpecMain == InitMain /\ [][NextMain]_vars

\* ------------------------------------------------------------ the options codec
\* the option lists a Sender can hold: list(set(options)) has each member once,
\* in any order
OptionLists ==
    {q \in SeqsUpTo(Members, 4) : \A i, j \in 1..Len(q) : i # j => q[i] # q[j]}

\* A session with no files, from a Sender built with any options, or a peer
\* that writes any one byte.
InitOptions ==
    \/ \E given \in OptionLists : InitSession(0, given)
    \/ \E v \in 0..255 : InitPeer(v)

NextOptions ==
    \/ \E k \in 1..BUFFERSIZE : SenderSend(k)
    \/ SenderRecvAck
    \/ SenderShutdown
    \/ ReceiverRecvOptions
    \/ \E k \in 1..BUFFERSIZE : ReceiverSend(k)
    \/ ReceiverRecv

SpecOptions == InitOptions /\ [][NextOptions]_vars

NoDup(q) == \A i, j \in 1..Len(q) : i # j => q[i] # q[j]

\* ------------------------------------------------------------ reliable batches
Ascii(name) == \A i \in 1..Len(name) : name[i] < 128

\* names that fit the name field and encode to one byte per character
ValidNames == {name \in Names : Ascii(name) /\ Len(name) <= NAME_LEN}

\* the next file is an existing file with a valid name
SenderNextValidFile == SenderNextFileFrom(ValidNames)

\* sock.send accepts all it is given
SenderSendAll == SenderSend(Len(snd["S"].chunk))
ReceiverSendAll == ReceiverSend(Len(snd["R"].chunk))

\* A session started from the CLI with up to MaxBatch files over a connection
\* that loses nothing and that neither side closes early, every sock.send
\* accepting its whole chunk; sock.recv still returns any part of what arrived.
InitBatch == \E n \in 0..MaxBatch, t \in BOOLEAN : InitSession(n, MainOptions(n, t))

NextBatch ==
    \/ SenderSendAll
    \/ SenderNextValidFile
    \/ SenderRecvAck
    \/ SenderRecvHash
    \/ SenderShutdown
    \/ ReceiverRecvOptions
    \/ ReceiverSendAll
    \/ ReceiverRecv
    \/ ReceiverRecvAck

SpecBatch == InitBatch /\ [][NextBatch]_vars

\* ------------------------------------------------------------ send_data alone
\* streams of up to one byte more than a buffer, and lengths up to one more
\* than the longest stream
Streams == SeqsUpTo(PayloadBytes, BUFFERSIZE + 1)
Lengths == 0..(BUFFERSIZE + 2)

\* The sender is in send_data(stream, length) at line 257, for any stream and
\* any length: the file may have changed since os.path.getsize read its size.
InitSendData ==
    \E stream \in Streams, length \in Lengths :
        /\ nfiles = 1
        /\ soptions = MainOptions(1, FALSE)
        /\ timeout = [p \in Sides |-> FALSE]
        /\ pc = [p \in Sides |-> IF p = "S" THEN "send_payload" ELSE "recv_payload"]
        /\ inbox = [p \in Sides |-> <<>>]
        /\ snd = [p \in Sides |-> IF p = "S" THEN StartSend(stream, length) ELSE IdleSend]
        /\ InitReceiver

\* the only steps are the sock.send calls of that send_data call
NextSendData == \E k \in 1..BUFFERSIZE : SenderSend(k)

SpecSendData == InitSendData /\ [][NextSendData]_vars

\* ------------------------------------------------------------ claims
Aborted(p) == err[p] = "aborted"

\* the receiver is working on the file the sender is working on
SameFile == fidx = ropened /\ fidx > 0

\* C1: with nothing altered in transit, the digest the sender computes for a
\* file equals the digest the receiver computes for it, however many bytes
\* each sock.send accepts and each sock.recv returns (here for a file whose
\* name is ASCII, and whose size and name fields the sender wrote as SIZE_LEN
\* and NAME_LEN bytes).
C1_DigestsAgree ==
    (/\ pc["S"] = "recv_hash"
     /\ pc["R"] \in {"send_hash", "recv_ack"}
     /\ SameFile
     /\ Ascii(sname)
     /\ fileSent - Len(snd["S"].out) = SIZE_LEN + NAME_LEN)
    => shash = rhash

\* C2: the sender reports a file SENT and sends its final ACK only if the
\* receiver wrote the source bytes; and once the sender's comparison fails
\* with 'Hash check failed', the receiver's session ends in failure.
C2_MismatchEndsBothSides ==
    /\ (pc["S"] = "send_ack" /\ SameFile) => rfile = sdata
    /\ err["S"] = "Hash check failed" => pc["R"] # "done"

\* C3: a send_data(stream, length) call that has returned wrote exactly the
\* first `length` bytes of its stream to the socket.
C3_SendsExactlyLength ==
    \A p \in Sides :
        (Running(p) /\ snd[p].st = "ret") => snd[p].out = Take(snd[p].src, snd[p].length)

\* C4: a recv_data(sink, size) call that has returned consumed exactly `size`
\* bytes and wrote exactly those to the sink.
C4_RecvConsumesExactlySize ==
    \A p \in Sides :
        (Running(p) /\ rcv[p].st = "ret") => Len(rcv[p].buf) = rcv[p].size

\* C5: when the sender rejects a name with FilenameTooLongError it has written
\* no byte for that file to the connection.
C5_NoTrafficBeforeReject ==
    err["S"] = "FilenameTooLongError" => fileSent = 0

\* C6: for a name whose UTF-8 encoding is at most NAME_LEN bytes, with every
\* sock.send accepting all it is given, send_filename writes exactly NAME_LEN
\* bytes and recv_filename returns the name.
C6_NameRoundTrip ==
    (/\ shortSend = 0
     /\ fidx = 1
     /\ Len(Utf8Encode(sname)) <= NAME_LEN)
    => /\ pc["S"] = "ack_name" => Len(snd["S"].out) = NAME_LEN
       /\ (pc["R"] = "send_ack_name" /\ pc["S"] = "ack_name") => rfilename = sname

\* C7: byte_to_options(options_to_byte(S)) holds exactly the flags of S, each
\* once: for the options of every Sender, for the empty list, and for the
\* options the receiver stores from a Sender's byte.
C7_OptionsRoundTrip ==
    /\ LET r == byte_to_options(options_to_byte(soptions))
       IN  NoDup(r) /\ Range(r) = Range(soptions)
    /\ byte_to_options(options_to_byte(<<>>)) = <<>>
    /\ (pc["S"] # "peer" /\ pc["R"] # "recv_options" /\ err["R"] = "")
       => (NoDup(roptions) /\ Range(roptions) = Range(soptions))

\* all four flags went from a Sender to the receiver
C7_Witness ==
    /\ pc["S"] # "peer"
    /\ Len(soptions) = 4
    /\ Len(roptions) = 4
    /\ pc["R"] = "send_ack_opt"

\* C8: whatever byte arrives, the options the receiver stores are named flags
\* only.
C8_OnlyNamedFlags ==
    \A i \in 1..Len(roptions) : roptions[i] \in Members

\* a step of the protocol, of either side
Step ==
    \/ \E k \in 1..BUFFERSIZE : SenderSend(k)
    \/ SenderSendBroken \/ SenderNextFile \/ SenderRecvAck \/ SenderRecvHash
    \/ SenderShutdown \/ ReceiverRecvOptions
    \/ \E k \in 1..BUFFERSIZE : ReceiverSend(k)
    \/ ReceiverSendBroken \/ ReceiverRecv \/ ReceiverRecvAck

\* C9: a session with an empty file list, neither side killed, never fails and
\* never stops before both sides are done; the sender writes the capability
\* byte and nothing else (no size field), the receiver sends exactly one ACK
\* and opens no file, and the receiver ends only after the sender has.
C9_EmptyBatchCompletes ==
    (nfiles = 0 /\ ~Aborted("S") /\ ~Aborted("R"))
    => /\ err["S"] = "" /\ err["R"] = ""
       /\ fidx = 0 /\ fileSent = 0 /\ racks <= 1 /\ ropened = 0
       /\ \/ inbox["R"] = <<>>
          \/ pc["R"] = "recv_options" /\ inbox["R"] = options_to_byte(soptions)
       /\ \/ inbox["S"] = <<>>
          \/ pc["S"] = "ack_options" /\ inbox["S"] = << ACK >>
       /\ pc["S"] = "done" => (racks = 1 /\ pc["R"] \in {"recv_size", "done"})
       /\ pc["R"] = "done" => (racks = 1 /\ pc["S"] = "done")
       /\ (pc["S"] = "done" /\ pc["R"] = "done") \/ ENABLED Step

C9_Witness ==
    /\ nfiles = 0
    /\ pc["S"] = "done" /\ pc["R"] = "done"
    /\ err["S"] = "" /\ err["R"] = ""
    /\ racks = 1

\* side p is moving a payload and its peer has closed before its part of the
\* transfer was complete: the receiver lacks payload bytes that the sender had
\* not written, the sender's peer had not written its whole digest
PayloadCutOff(p) ==
    /\ closed[Peer(p)]
    /\ IF p = "R"
       THEN /\ pc["R"] = "recv_payload"
            /\ Len(rcv["R"].buf) + Len(inbox["R"]) < rcv["R"].size
       ELSE \/ /\ pc["S"] = "send_payload"
               /\ Len(inbox["S"]) < HASH_LEN
            \/ /\ pc["S"] = "recv_hash"
               /\ Len(rcv["S"].buf) + Len(inbox["S"]) < rcv["S"].size

BrokenOrKilled(p) == pc[p] = "failed" /\ err[p] \in {"connection broken", "aborted"}

\* C10: once the peer has closed while side p is transferring a payload, p
\* stays in that transfer until it ends with a connection-broken error: it
\* never gets to compare a digest or to send or wait for the per-file ACK; and
\* a side that has ended stays ended and writes nothing more.
C10_CutOffEndsBroken ==
    [][\A p \in Sides :
          /\ PayloadCutOff(p) => (PayloadCutOff(p)' \/ BrokenOrKilled(p)')
          /\ ~Running(p) => /\ pc'[p] = pc[p]
                             /\ Len(inbox'[Peer(p)]) <= Len(inbox[Peer(p)])]_vars

\* the receiver had opened the file, the sender was killed before the payload
\* was complete, and recv_data raised
C10_Witness ==
    /\ Aborted("S")
    /\ err["R"] = "connection broken"
    /\ ropened = 1
    /\ rhash = <<>>
    /\ Len(rfile) < rlength

\* the byte Main's rule gives: one file or several, --timeout or not
CapabilityByte == (IF nfiles > 1 THEN 2 ELSE 1) + (IF timeout["S"] THEN 4 ELSE 16)

\* C11: a sender started from the CLI with at least one file announces the
\* byte (1 for one file, 2 for several) + (4 with --timeout, 16 without), 0x11
\* for one file without timeout; send_options is the first thing the sender
\* writes, before any file is started, and it is never entered again.
C11_CapabilityByte ==
    [][nfiles >= 1 =>
          /\ (pc["S"] = "send_options" /\ pc'["S"] # "send_options")
                => /\ pc'["S"] = "ack_options"
                   /\ inbox'["R"] = << B(CapabilityByte) >>
                   /\ (nfiles = 1 /\ ~timeout["S"]) => inbox'["R"] = << B(17) >>
          /\ pc["S"] = "send_options" => (inbox["R"] = <<>> /\ fidx = 0 /\ fileSent = 0)
          /\ pc["S"] # "send_options" => pc'["S"] # "send_options"]_vars

\* two files with --timeout: the byte 0x06 is on the connection
C11_Witness ==
    /\ nfiles = 2
    /\ timeout["S"]
    /\ pc["S"] = "ack_options"
    /\ inbox["R"] = << B(6) >>

\* side p is at a recv_ack call
AckTurn(p) == IF p = "S" THEN pc["S"] \in SenderAckPcs ELSE pc["R"] = "recv_ack"

\* C12: a recv_ack call that returns reads one byte and goes on exactly when
\* that byte is 0x01; for any other byte, and for no byte from a closed peer,
\* the side ends with 'ACK failed', and from then on it writes nothing.
C12_AckOnlyOnOne ==
    [][\A p \in Sides :
          /\ (AckTurn(p) /\ pc'[p] # pc[p] /\ err'[p] # "aborted")
                => IF Take(inbox[p], 1) = << B(1) >>
                   THEN /\ err'[p] # "ACK failed"
                        /\ Running(p)' => inbox'[p] = Tail(inbox[p])
                   ELSE /\ pc'[p] = "failed"
                        /\ err'[p] = "ACK failed"
          /\ err[p] = "ACK failed"
                => /\ pc'[p] = "failed"
                   /\ Len(inbox'[Peer(p)]) <= Len(inbox[Peer(p)])]_vars

\* the receiver read a byte that is not 0x01 where it awaited the final ACK:
\* the sender has not closed, so the read did return a byte
C12_Witness ==
    /\ err["R"] = "ACK failed"
    /\ Running("S")

\* C13: sender and receiver alternate turns: bytes are in flight in one
\* direction at a time, and while the receiver waits for the final ACK of a
\* file the connection carries nothing but that ACK: the sender has neither
\* written the next file's size field nor half-closed.
C13_OneStepInFlight ==
    /\ inbox["S"] = <<>> \/ inbox["R"] = <<>>
    /\ pc["R"] = "recv_ack" => (inbox["R"] \in {<<>>, << ACK >>} /\ ~closed["S"])

\* the step order of send(): each pair is a step and the step after it
SenderOrder ==
    { <<"send_options", "ack_options">>, <<"ack_options", "next_file">>,
      <<"ack_options", "shutdown">>, <<"next_file", "send_size">>,
      <<"send_size", "ack_size">>, <<"ack_size", "send_name">>,
      <<"send_name", "ack_name">>, <<"ack_name", "send_payload">>,
      <<"ack_name", "recv_hash">>, <<"send_payload", "recv_hash">>,
      <<"recv_hash", "send_ack">>, <<"send_ack", "next_file">>,
      <<"send_ack", "shutdown">>, <<"shutdown", "done">> }

\* the step order of recv()
ReceiverOrder ==
    { <<"recv_options", "send_ack_opt">>, <<"send_ack_opt", "recv_size">>,
      <<"recv_size", "send_ack_size">>, <<"recv_size", "done">>,
      <<"send_ack_size", "recv_name">>, <<"recv_name", "send_ack_name">>,
      <<"send_ack_name", "recv_payload">>, <<"recv_payload", "send_hash">>,
      <<"send_hash", "recv_ack">>, <<"recv_ack", "recv_size">> }

\* C14: each side moves only from a step to the step after it (or fails); the
\* sender starts files one at a time and the receiver opens them one at a
\* time, never ahead of the sender; the payload step of an empty file moves
\* nothing; the receiver has its digest only after `size` payload bytes; and
\* the file the receiver is writing is the file the sender is sending, under
\* its name, and holds its content when the sender sends the final ACK.
C14_StepOrder ==
    [][/\ pc'["S"] # pc["S"]
            => (<< pc["S"], pc'["S"] >> \in SenderOrder \/ pc'["S"] = "failed")
       /\ pc'["R"] # pc["R"]
            => (<< pc["R"], pc'["R"] >> \in ReceiverOrder \/ pc'["R"] = "failed")
       /\ fidx' = IF pc["S"] = "next_file" /\ pc'["S"] = "send_size" THEN fidx + 1 ELSE fidx
       /\ ropened' = IF pc["R"] = "send_ack_name" /\ pc'["R"] = "recv_payload"
                     THEN ropened + 1 ELSE ropened
       /\ (pc["S"] = "ack_name" /\ pc'["S"] = "recv_hash") => sdata = <<>>
       /\ ropened <= fidx /\ fidx <= ropened + 1 /\ fidx <= nfiles
       /\ pc["R"] \in {"send_hash", "recv_ack"} => Len(rfile) >= rlength
       /\ pc["R"] \in {"send_ack_name", "recv_payload", "send_hash"}
            => (rfilename = sname /\ rlength = Len(sdata)
                /\ fidx = IF pc["R"] = "send_ack_name" THEN ropened + 1 ELSE ropened)
       /\ pc["S"] = "send_ack"
            => (ropened = fidx /\ rfilename = sname /\ rfile = sdata)]_vars

\* the second file of a batch has arrived whole and the sender is about to
\* send its final ACK
C14_Witness ==
    /\ nfiles = 2 /\ fidx = 2 /\ ropened = 2
    /\ pc["S"] = "send_ack" /\ pc["R"] = "recv_ack"
    /\ rfile = sdata /\ Len(rfile) = MaxLen

\* the read at recv_file_size can complete a size field of value zero
ZeroSizeReadable ==
    \E k \in 1..Len(inbox["R"]) :
        LET b == rcv["R"].buf \o Take(inbox["R"], k)
        IN  Len(b) = SIZE_LEN /\ \A i \in 1..SIZE_LEN : b[i] = B(0)

\* the connection has closed with the size field absent or incomplete
SizeCutOff == inbox["R"] = <<>> /\ closed["S"]

\* C15: when the receiver (not killed) leaves recv_file_size, recv() returns
\* normally, with no ACK for that read, exactly when the read yields zero: an
\* explicit zero size, or the connection closed with no or only some of the
\* size bytes read; in every other case the loop goes on with an ACK.
C15_ZeroSizeEndsLoop ==
    [][(pc["R"] = "recv_size" /\ pc'["R"] # "recv_size" /\ err'["R"] # "aborted")
          => /\ pc'["R"] \in {"done", "send_ack_size"}
             /\ SizeCutOff => pc'["R"] = "done"
             /\ pc'["R"] = "done"
                  => /\ err'["R"] = "" /\ racks' = racks
                     /\ SizeCutOff \/ ZeroSizeReadable
             /\ pc'["R"] = "send_ack_size"
                  => /\ racks' = racks + 1 /\ rlength' > 0
                     /\ ~SizeCutOff]_vars

\* C16: a receiver that finds the connection closed where it awaits the
\* capability byte ends in failure with 'failed to unpack options byte', has
\* sent no ACK and opened no file; and a receiver that has sent an ACK has
\* read a capability byte before and holds its decoding.
C16_NoByteNoAck ==
    [][/\ (pc["R"] = "recv_options" /\ pc'["R"] # "recv_options" /\ err'["R"] # "aborted"
           /\ inbox["R"] = <<>>)
            => /\ pc'["R"] = "failed"
               /\ err'["R"] = "failed to unpack options byte"
               /\ racks' = 0 /\ roptions' = <<>> /\ ropened' = 0
               /\ inbox'["S"] = inbox["S"]
       /\ err["R"] = "failed to unpack options byte"
            => (pc'["R"] = "failed" /\ racks' = 0 /\ inbox'["S"] = inbox["S"])
       /\ pc["R"] = "recv_options" => racks = 0
       /\ racks' > 0 => pc'["R"] # "recv_options"
       /\ (racks = 0 /\ racks' > 0)
            => /\ pc["R"] = "recv_options" /\ inbox["R"] # <<>>
               /\ roptions' = byte_to_options(options_to_byte(soptions))]_vars

\* the sender was killed before it wrote the capability byte
C16_Witness ==
    /\ Aborted("S")
    /\ err["R"] = "failed to unpack options byte"
    /\ racks = 0

\* C17: once the sender has received the capability ACK, the receiver's
\* connected socket has the timeout exactly when the sender's socket has it,
\* and exactly when bit 2 (value 4) is set in the capability byte, for every
\* option list a Sender can be built with, none included.
C17_TimeoutAgrees ==
    (pc["S"] \notin {"peer", "send_options", "ack_options", "failed"})
    => /\ timeout["R"] = timeout["S"]
       /\ timeout["S"] = BitSet(Val(options_to_byte(soptions)[1]), 2)
       /\ timeout["S"] = (\E i \in 1..Len(soptions) : soptions[i].value = 4)

\* a Sender built with TIMEOUT and NO_TIMEOUT together has completed the
\* negotiation, and both sockets have the timeout
C17_Witness ==
    /\ pc["S"] = "shutdown"
    /\ OptionsOf(TIMEOUT) \in Range(soptions)
    /\ OptionsOf(NO_TIMEOUT) \in Range(soptions)
    /\ timeout["R"] /\ timeout["S"]

\* C18: when Main has ended on a side, every socket that side created is
\* closed: the sender's socket; the receiver's listening socket and its end of
\* the connection.
C18_SocketsClosed ==
    /\ ~Running("S") => closed["S"]
    /\ ~Running("R") => (closed["L"] /\ (err["R"] # "AttributeError" => closed["R"]))

\* C19: in a session over a reliable connection with atomic sends and valid
\* names, files of any size, neither side fails and the session never stops
\* before both sides are done; the receiver is done only when the sender is,
\* with every file of the batch started, opened and written; and a file holds
\* the source bytes when the sender sends its final ACK.
C19_ReliableBatchSucceeds ==
    /\ err["S"] = "" /\ err["R"] = ""
    /\ pc["R"] = "done" => (pc["S"] = "done" /\ fidx = nfiles /\ ropened = nfiles)
    /\ pc["S"] = "send_ack" => (ropened = fidx /\ rfile = sdata)
    /\ (pc["S"] = "done" /\ pc["R"] = "done") \/ ENABLED NextBatch

\* C20: a send_data call never comes to loop at line 74 with its stream
\* exhausted and totalsent below length, where every further iteration reads
\* b'', sends nothing and leaves totalsent as it is.
C20_SendDataTerminates ==
    snd["S"].st # "spin"

====
